---- MODULE Spec2Model ----
\* The API-mediation layer of the rendezvous-map backend (server.js):
\* per-category result caches, the minimum-spacing rate limiter, the session
\* request counter with its 24-hour reset, and handleCachedRequest, which
\* ties them together around one awaited upstream call.
\*
\* Node runs the server on one thread: every handler runs without
\* interruption up to its next await.  Each action below is one such
\* uninterrupted stretch; Date.now() is the variable `now`, which only Tick
\* advances, so several stretches may run within the same millisecond.
EXTENDS Integers, Sequences, FiniteSets

\* ---------------------------------------------------------------- bounds
\* Time is counted in ticks and the configuration is scaled down, so that
\* the distances the code compares (minimum spacing, expiry, session
\* window) are all crossed before the clock stops at MaxTime.
MaxTime == 5
NumSlots == 2
RequestLimit == 2
minInterval == 2
ExpiryGeocoding == 2
ExpiryPlaces == 1
ExpiryDetails == 2
SessionWindow == 2
\* The cache limit of the eviction runs: the configured limits (1000, 500,
\* 500) scaled down, large enough for 20% of limit + 1 to be an entry.
EvictLimit == 4
\* The pause between two groups of a batch (200 ms), in ticks, and the
\* longest item list a client posts besides the seven addresses of
\* section 8, property 6.
BatchDelay == 2
MaxItems == 2
RetryDelay == 1
MaxCoords == 2
MaxRuns == 3

\* ------------------------------------------------------- program constants
GeocodingCacheLimit == 1000
PlacesCacheLimit == 500
DetailsCacheLimit == 500
batchSize == 5
retries == 2

Category == {"geocoding", "places", "details"}

CACHE_EXPIRY ==
  [geocoding |-> ExpiryGeocoding, places |-> ExpiryPlaces, details |-> ExpiryDetails]

CACHE_LIMITS ==
  [geocoding |-> GeocodingCacheLimit, places |-> PlacesCacheLimit,
   details |-> DetailsCacheLimit]

\* Cache keys of the requests the clients send, per category.
Keys ==
  [geocoding |-> {"k1", "k2"}, places |-> {"k1"}, details |-> {"k1"}]

\* What the provider may answer: a body with a status field, or nothing
\* (transport failure, non-2xx answer, 10 s timeout: axios rejects).
GoodStatus == {"OK", "ZERO_RESULTS"}
BadStatus == {"REQUEST_DENIED"}

\* Variant of IsSuccess: every answer is taken as a result.
IsSuccess_Any(status) == TRUE

\* Variant of IsSuccess: only OK is taken as a result.
IsSuccess_OnlyOK(status) == status = "OK"

\* The status test of lines 456 and 465: OK and ZERO_RESULTS are results.
IsSuccess(status) == status \in GoodStatus

Slots == 1..NumSlots

\* The clock value at which the process starts.  Date.now() is far larger
\* than minInterval, so the limiter's initial timestamps (0) never reject.
StartTime == minInterval

\* The categories the clients of one run ask for.  The three categories go
\* through the same code; a run uses two of them.
ActiveSets ==
  {{"geocoding", "places"}, {"geocoding", "details"}, {"places", "details"}}

NoData == [status |-> "none"]
Idle == [pc |-> "idle", type |-> "none", key |-> "none"]
NoOutcome ==
  [op |-> "none", type |-> "none", key |-> "none", kind |-> "none", data |-> NoData]
NoBatch ==
  [pc |-> "idle", type |-> "none", items |-> << >>, i |-> 0, promises |-> << >>,
   results |-> << >>, errors |-> << >>, wakeAt |-> 0]

\* AddressForm before anything is typed or submitted.
NoLookup ==
  [pc |-> "idle", retries |-> 0, delay |-> 0, left |-> 0, sent |-> 0, error |-> ""]
NoForm ==
  [address |-> <<"", "">>, previousAddresses |-> <<"", "">>, isLoading |-> FALSE,
   error |-> "", pending |-> FALSE, lookup |-> <<NoLookup, NoLookup>>,
   coords |-> << >>]

\* MapView before the map has loaded and before any coordinates arrive.
NoView ==
  [coords |-> 0, map |-> FALSE, reload |-> TRUE, restaurants |-> 0,
   isLoading |-> FALSE, error |-> "none", run |-> 0, timer |-> 0, requests |-> {}]

VARIABLES
  view,         \* MapView: its props and state hooks, its timer and requests
  form,         \* AddressForm: its state hooks and the lookups of a submission
  active,       \* environment: the categories this run's clients ask for
  now,          \* Date.now()
  cache,        \* cache[type]: the Map, as its entries in insertion order
  requestStats, \* total, geocoding, places, details, limit, lastReset
  rateLimiter,  \* last{Geocode,Places,Details}Request, by category
  slots,        \* the HTTP requests being served: idle, or awaiting api.get
  outcome,      \* what the most recent handler stretch returned or threw
  issuedAt,     \* history: when the last upstream call of a category started
  consultedAt,  \* history: when canMakeRequest last ran for a category
  batch         \* the batch request being served, if any

vars ==
  <<form, view, active, now, cache, requestStats, rateLimiter, slots, outcome, issuedAt,
    consultedAt, batch>>

\* ------------------------------------------------------------- the caches
\* Map.get: the index of the key's entry, 0 when the Map has none.
Find(entries, key) ==
  IF \E n \in 1..Len(entries) : entries[n].key = key
    THEN CHOOSE n \in 1..Len(entries) : entries[n].key = key
    ELSE 0

\* Variant of MapSet: an entry already in the map is left as it is.
MapSet_KeepOld(entries, key, data, t) ==
  IF \E n \in 1..Len(entries) : entries[n].key = key
    THEN entries
    ELSE Append(entries, [key |-> key, data |-> data, timestamp |-> t, lastAccessed |-> t])

\* Map.set: an existing key keeps its place in the insertion order.
MapSet(entries, key, data, t) ==
  LET e == [key |-> key, data |-> data, timestamp |-> t, lastAccessed |-> t]
      n == Find(entries, key)
  IN  IF n = 0 THEN Append(entries, e) ELSE [entries EXCEPT ![n] = e]

\* Variant of SortRank: the sort is by descending timestamp.
SortRank_Newest(entries, n) ==
  Cardinality({m \in 1..Len(entries) :
                 \/ entries[m].timestamp > entries[n].timestamp
                 \/ entries[m].timestamp = entries[n].timestamp /\ m < n})

\* Variant of SortRank: of two entries with one timestamp the one set
\* later comes first.
SortRank_LaterFirst(entries, n) ==
  Cardinality({m \in 1..Len(entries) :
                 \/ entries[m].timestamp < entries[n].timestamp
                 \/ entries[m].timestamp = entries[n].timestamp /\ m > n})

\* Position of entry n after the (stable) sort by timestamp.
SortRank(entries, n) ==
  Cardinality({m \in 1..Len(entries) :
                 \/ entries[m].timestamp < entries[n].timestamp
                 \/ entries[m].timestamp = entries[n].timestamp /\ m < n})

RECURSIVE Without(_, _, _)
Without(entries, gone, n) ==
  IF n > Len(entries) THEN << >>
  ELSE IF n \in gone THEN Without(entries, gone, n + 1)
  ELSE <<entries[n]>> \o Without(entries, gone, n + 1)

\* Variant of PurgeOldest: the oldest 10% are removed.
PurgeOldest_Tenth(entries, limit) ==
  IF Len(entries) > limit
    THEN LET removeCount == Len(entries) \div 10
             gone == {n \in 1..Len(entries) : SortRank(entries, n) < removeCount}
         IN  Without(entries, gone, 1)
    ELSE entries

\* manageCacheSize on one Map with a given limit.
PurgeOldest(entries, limit) ==
  IF Len(entries) > limit
    THEN LET removeCount == Len(entries) \div 5
             gone == {n \in 1..Len(entries) : SortRank(entries, n) < removeCount}
         IN  Without(entries, gone, 1)
    ELSE entries

manageCacheSize(c, type) ==
  [c EXCEPT ![type] = PurgeOldest(c[type], CACHE_LIMITS[type])]

\* Variant of Touch: a hit also renews the entry's timestamp.
Touch_Restamp(c, type, n, t) ==
  [c EXCEPT ![type][n].lastAccessed = t, ![type][n].timestamp = t]

\* cachedItem.lastAccessed = Date.now()
Touch(c, type, n, t) == [c EXCEPT ![type][n].lastAccessed = t]

\* Variant of Fresh: the entry is still served at age = expiry.
Fresh_Inclusive(entry, type, t) == t - entry.timestamp <= CACHE_EXPIRY[type]

\* Variant of Fresh: the age is counted from the last hit.
Fresh_ByAccess(entry, type, t) == t - entry.lastAccessed < CACHE_EXPIRY[type]

\* The test of handleCachedRequest's first lines: a fresh entry is there.
Fresh(entry, type, t) == t - entry.timestamp < CACHE_EXPIRY[type]

IsHit(c, type, key, t) ==
  /\ Find(c[type], key) # 0
  /\ Fresh(c[type][Find(c[type], key)], type, t)

\* --------------------------------------------------------- session reset
ZeroedStats(st, t) ==
  [total |-> 0, geocoding |-> 0, places |-> 0, details |-> 0,
   limit |-> st.limit, lastReset |-> t]

EmptyCaches == [c \in Category |-> << >>]

SessionElapsed(st, t) == t - st.lastReset > SessionWindow

\* Variant of CacheAfterCheck: the caches survive the session reset.
CacheAfterCheck_Keep(st, c, t) == c

\* checkSessionReset, as the pair it leaves behind.
StatsAfterCheck(st, t) == IF SessionElapsed(st, t) THEN ZeroedStats(st, t) ELSE st
CacheAfterCheck(st, c, t) == IF SessionElapsed(st, t) THEN EmptyCaches ELSE c

\* ----------------------------------------------------------- rate limiter
\* Variant of LimiterAfter: one timestamp shared by all categories.
LimiterAfter_Shared(rl, type, t) == [c \in Category |-> t]

\* Variant of canMakeRequest: the spacing is one tick short.
canMakeRequest_Short(rl, type, t) == ~(t - rl[type] < minInterval - 1)

\* canMakeRequest stores `now` as the category's last request before it
\* compares, whatever the comparison then says.
LimiterAfter(rl, type, t) == [rl EXCEPT ![type] = t]

canMakeRequest(rl, type, t) == ~(t - rl[type] < minInterval)

\* ------------------------------------------------------------- the quota
\* Variant of LimitReached: one call more is let through.
LimitReached_Late(st) == st.total > st.limit

LimitReached(st) == st.total >= st.limit

\* Variant of CountCall: the category's counter is forgotten.
CountCall_TotalOnly(st, type) == [st EXCEPT !.total = @ + 1]

\* Variant of CountCall: a call counts twice.
CountCall_Twice(st, type) == [st EXCEPT !.total = @ + 2, ![type] = @ + 2]

CountCall(st, type) == [st EXCEPT !.total = @ + 1, ![type] = @ + 1]

\* ------------------------------------------------------------------ Init
Init ==
  /\ active \in ActiveSets
  /\ now = StartTime
  /\ cache = EmptyCaches
  /\ requestStats = [total |-> 0, geocoding |-> 0, places |-> 0, details |-> 0,
                     limit |-> RequestLimit, lastReset |-> StartTime]
  /\ rateLimiter = [c \in Category |-> 0]
  /\ slots = [i \in Slots |-> Idle]
  /\ outcome = NoOutcome
  /\ issuedAt = [c \in Category |-> -1]
  /\ consultedAt = [c \in Category |-> -1]
  /\ batch = NoBatch
  /\ form = NoForm
  /\ view = NoView

\* --------------------------------------------------------------- actions
Tick ==
  /\ now < MaxTime
  /\ now' = now + 1
  /\ UNCHANGED <<form, view, active, batch, cache, requestStats, rateLimiter, slots, outcome, issuedAt, consultedAt>>

Started(type, key, kind, data) ==
  [op |-> "start", type |-> type, key |-> key, kind |-> kind, data |-> data]

\* Variant of HandleCachedRequest: the rate limiter is asked before the
\* request limit is looked at.
HandleCachedRequest_RateFirst(i, type, key, st, c) ==
  IF IsHit(c, type, key, now)
    THEN LET n == Find(c[type], key) IN
         /\ cache' = Touch(c, type, n, now)
         /\ requestStats' = st
         /\ outcome' = Started(type, key, "hit", c[type][n].data)
         /\ UNCHANGED <<rateLimiter, slots, issuedAt, consultedAt>>
  ELSE /\ cache' = c
       /\ requestStats' = st
       /\ rateLimiter' = LimiterAfter(rateLimiter, type, now)
       /\ consultedAt' = [consultedAt EXCEPT ![type] = now]
       /\ IF ~canMakeRequest(rateLimiter, type, now)
            THEN /\ outcome' = Started(type, key, "rate", NoData)
                 /\ UNCHANGED <<slots, issuedAt>>
          ELSE IF LimitReached(st)
            THEN /\ outcome' = Started(type, key, "limit", NoData)
                 /\ UNCHANGED <<slots, issuedAt>>
          ELSE /\ slots' = [slots EXCEPT ![i] = [pc |-> "await", type |-> type, key |-> key]]
               /\ issuedAt' = [issuedAt EXCEPT ![type] = now]
               /\ outcome' = Started(type, key, "sent", NoData)

\* handleCachedRequest up to its await, on the statistics st and the caches
\* c that the tracking middleware left.
HandleCachedRequest(i, type, key, st, c) ==
  IF IsHit(c, type, key, now)
    THEN LET n == Find(c[type], key) IN
         /\ cache' = Touch(c, type, n, now)
         /\ requestStats' = st
         /\ outcome' = Started(type, key, "hit", c[type][n].data)
         /\ UNCHANGED <<rateLimiter, slots, issuedAt, consultedAt>>
  ELSE IF LimitReached(st)
    THEN /\ cache' = c
         /\ requestStats' = st
         /\ outcome' = Started(type, key, "limit", NoData)
         /\ UNCHANGED <<rateLimiter, slots, issuedAt, consultedAt>>
  ELSE /\ cache' = c
       /\ requestStats' = st
       /\ rateLimiter' = LimiterAfter(rateLimiter, type, now)
       /\ consultedAt' = [consultedAt EXCEPT ![type] = now]
       /\ IF canMakeRequest(rateLimiter, type, now)
            THEN /\ slots' = [slots EXCEPT ![i] = [pc |-> "await", type |-> type, key |-> key]]
                 /\ issuedAt' = [issuedAt EXCEPT ![type] = now]
                 /\ outcome' = Started(type, key, "sent", NoData)
            ELSE /\ outcome' = Started(type, key, "rate", NoData)
                 /\ UNCHANGED <<slots, issuedAt>>

\* A single-item endpoint (GET /api/geocode, /api/places/nearby,
\* /api/places/details): the tracking middleware, then the handler, which
\* reaches handleCachedRequest without an await in between.
Request(i, type, key) ==
  /\ type \in active
  /\ slots[i].pc = "idle"
  /\ \A j \in Slots : j < i => slots[j].pc # "idle"
  /\ UNCHANGED <<form, view, active, batch, now>>
  /\ HandleCachedRequest(i, type, key,
                         StatsAfterCheck(requestStats, now),
                         CacheAfterCheck(requestStats, cache, now))

Completed(i, kind, data) ==
  [op |-> "complete", type |-> slots[i].type, key |-> slots[i].key,
   kind |-> kind, data |-> data]

\* Variant of UpstreamAnswers: the answer is stored but not counted.
UpstreamAnswers_Uncounted(i, status) ==
  LET type == slots[i].type
      key == slots[i].key
      data == [status |-> status]
  IN  /\ slots[i].pc = "await"
      /\ requestStats' = requestStats
      /\ IF IsSuccess(status)
           THEN /\ cache' = manageCacheSize(
                              [cache EXCEPT ![type] = MapSet(cache[type], key, data, now)],
                              type)
                /\ outcome' = Completed(i, "data", data)
           ELSE /\ cache' = cache
                /\ outcome' = Completed(i, "upstream", NoData)
      /\ slots' = [slots EXCEPT ![i] = Idle]
      /\ UNCHANGED <<form, view, active, batch, now, rateLimiter, issuedAt, consultedAt>>

\* api.get resolves: the provider answered with a body whose status is given.
UpstreamAnswers(i, status) ==
  LET type == slots[i].type
      key == slots[i].key
      data == [status |-> status]
  IN  /\ slots[i].pc = "await"
      /\ requestStats' = CountCall(requestStats, type)
      /\ IF IsSuccess(status)
           THEN /\ cache' = manageCacheSize(
                              [cache EXCEPT ![type] = MapSet(cache[type], key, data, now)],
                              type)
                /\ outcome' = Completed(i, "data", data)
           ELSE /\ cache' = cache
                /\ outcome' = Completed(i, "upstream", NoData)
      /\ slots' = [slots EXCEPT ![i] = Idle]
      /\ UNCHANGED <<form, view, active, batch, now, rateLimiter, issuedAt, consultedAt>>

\* Variant of UpstreamFails: the call that failed is issued once more.
UpstreamFails_Retry(i) ==
  /\ slots[i].pc = "await"
  /\ outcome' = Completed(i, "transport", NoData)
  /\ issuedAt' = [issuedAt EXCEPT ![slots[i].type] = now]
  /\ UNCHANGED <<form, view, active, batch, now, cache, requestStats, rateLimiter, slots, consultedAt>>

\* api.get rejects: no answer, a non-2xx answer, or the 10 s timeout.
UpstreamFails(i) ==
  /\ slots[i].pc = "await"
  /\ outcome' = Completed(i, "transport", NoData)
  /\ slots' = [slots EXCEPT ![i] = Idle]
  /\ UNCHANGED <<form, view, active, batch, now, cache, requestStats, rateLimiter, issuedAt, consultedAt>>

\* Variant of ResetStats: the caches are left as they are.
ResetStats_KeepCaches ==
  /\ requestStats' = ZeroedStats(requestStats, now)
  /\ cache' = cache
  /\ outcome' = [NoOutcome EXCEPT !.op = "reset"]
  /\ UNCHANGED <<form, view, active, batch, now, rateLimiter, slots, issuedAt, consultedAt>>

\* POST /api/stats/reset, after the tracking middleware.
ResetStats ==
  /\ requestStats' = ZeroedStats(requestStats, now)
  /\ cache' = EmptyCaches
  /\ outcome' = [NoOutcome EXCEPT !.op = "reset"]
  /\ UNCHANGED <<form, view, active, batch, now, rateLimiter, slots, issuedAt, consultedAt>>

\* GET /api/stats: the tracking middleware and the handler's own check.
GetStats ==
  /\ requestStats' = StatsAfterCheck(requestStats, now)
  /\ cache' = CacheAfterCheck(requestStats, cache, now)
  /\ outcome' = IF SessionElapsed(requestStats, now)
                  THEN [NoOutcome EXCEPT !.op = "reset"] ELSE outcome
  /\ UNCHANGED <<form, view, active, batch, now, rateLimiter, slots, issuedAt, consultedAt>>

Next ==
  \/ Tick
  \/ \E i \in Slots, type \in Category : \E key \in Keys[type] : Request(i, type, key)
  \/ \E i \in Slots, status \in GoodStatus \cup BadStatus : UpstreamAnswers(i, status)
  \/ \E i \in Slots : UpstreamFails(i)
  \/ ResetStats
  \/ GetStats

Spec == Init /\ [][Next]_vars

TypeOK ==
  /\ active \in ActiveSets
  /\ now \in StartTime..MaxTime
  /\ \A c \in Category :
       /\ rateLimiter[c] \in 0..MaxTime
       /\ \A n \in 1..Len(cache[c]) : cache[c][n].key \in Keys[c]
  /\ \A i \in Slots : slots[i].pc \in {"idle", "await"}

\* ------------------------------------------- geocoding and batch endpoints
\* An address is a sequence of characters; a cache key of the geocoding
\* category is the address lower-cased and trimmed.
Lower(ch) == CASE ch = "A" -> "a" [] ch = "B" -> "b" [] OTHER -> ch

toLowerCase(address) == [n \in 1..Len(address) |-> Lower(address[n])]

RECURSIVE trimStart(_)
trimStart(address) ==
  IF address # << >> /\ Head(address) = " " THEN trimStart(Tail(address)) ELSE address

RECURSIVE trimEnd(_)
trimEnd(address) ==
  IF address # << >> /\ address[Len(address)] = " "
    THEN trimEnd(SubSeq(address, 1, Len(address) - 1))
    ELSE address

\* Variant of trim: trailing blanks are kept.
trim_StartOnly(address) == trimStart(address)

trim(address) == trimEnd(trimStart(address))

normalizedAddress(address) == trim(toLowerCase(address))

\* `${placeId},${fieldsParam}` with no fields asked for.
DetailsKey(placeId) == <<placeId, ",">>

ItemKey(type, item) ==
  IF type = "geocoding" THEN normalizedAddress(item) ELSE DetailsKey(item)

\* What the clients send.
Addresses == {<< >>, <<" ">>, <<"a">>, <<"A", " ">>}

Seven == << <<"a">>, <<"b">>, <<"c">>, << >>, <<"d">>, <<"e">>, <<"f">> >>

AddressLists ==
  {<< >>, Seven} \cup UNION {[1..n -> Addresses] : n \in 1..MaxItems}

PlaceIdLists ==
  {<< >>} \cup UNION {[1..n -> {"p1", "p2"}] : n \in 1..MaxItems}

\* req.body.addresses / req.body.placeIds: an array, or anything else
\* (the field is missing, or holds a value that is not an array).
NotAnArray == [isArray |-> FALSE, items |-> << >>]

Bodies(lists) == {NotAnArray} \cup {[isArray |-> TRUE, items |-> l] : l \in lists}

\* req.query.placeid: missing (or empty), or a place id.
PlaceIds == {"", "p1", "p2"}

\* error.message of what handleCachedRequest throws.
LimitMessage == "Request limit reached"
RateMessage == "Rate limit reached, please try again in a moment"
UpstreamMessage == "Google Maps API error"
TransportMessage == "axios error"

\* handleCachedRequest up to its await, as a function of what it reads:
\* the caches and limiter it leaves, and how it went on.
FetchSync(c, rl, st, type, key, t) ==
  IF IsHit(c, type, key, t)
    THEN [cache |-> Touch(c, type, Find(c[type], key), t), rl |-> rl,
          kind |-> "hit", data |-> c[type][Find(c[type], key)].data]
  ELSE IF LimitReached(st)
    THEN [cache |-> c, rl |-> rl, kind |-> "limit", data |-> NoData]
  ELSE [cache |-> c, rl |-> LimiterAfter(rl, type, t),
        kind |-> IF canMakeRequest(rl, type, t) THEN "sent" ELSE "rate",
        data |-> NoData]

\* The promise of one item's callback after its first stretch: settled with
\* data, settled with the caught error's message, or awaiting api.get.
Promise(item, key, f) ==
  [item |-> item, key |-> key,
   state |-> IF f.kind = "sent" THEN "await" ELSE "settled",
   error |-> CASE f.kind = "limit" -> LimitMessage
               [] f.kind = "rate" -> RateMessage
               [] OTHER -> "",
   data |-> f.data]

\* Variant of MapItems: each callback asks a rate limiter that no other
\* callback of the group has touched.
RECURSIVE MapItems_EachAlone(_, _, _, _, _, _)
MapItems_EachAlone(type, group, c, rl, st, t) ==
  IF group = << >>
    THEN [cache |-> c, rl |-> rl, promises |-> << >>]
    ELSE LET key == ItemKey(type, Head(group))
             f == FetchSync(c, rl, st, type, key, t)
             rest == MapItems_EachAlone(type, Tail(group), f.cache, rl, st, t)
         IN  [cache |-> rest.cache, rl |-> f.rl,
              promises |-> <<Promise(Head(group), key, f)>> \o rest.promises]

\* batch.map(async ...): the callbacks run one after another, each up to
\* its await, within the same stretch.
RECURSIVE MapItems(_, _, _, _, _, _)
MapItems(type, group, c, rl, st, t) ==
  IF group = << >>
    THEN [cache |-> c, rl |-> rl, promises |-> << >>]
    ELSE LET key == ItemKey(type, Head(group))
             f == FetchSync(c, rl, st, type, key, t)
             rest == MapItems(type, Tail(group), f.cache, f.rl, st, t)
         IN  [cache |-> rest.cache, rl |-> rest.rl,
              promises |-> <<Promise(Head(group), key, f)>> \o rest.promises]

Min(a, b) == IF a < b THEN a ELSE b

\* Variant of StartGroup: the turn takes all the items that are left.
StartGroup_Whole(b, c, rl, st, t) ==
  LET group == SubSeq(b.items, b.i + 1, Len(b.items))
      m == MapItems(b.type, group, c, rl, st, t)
  IN  [cache |-> m.cache, rl |-> m.rl,
       batch |-> [b EXCEPT !.pc = "group", !.promises = m.promises]]

\* One turn of the for loop up to `await Promise.all(promises)`.
StartGroup(b, c, rl, st, t) ==
  LET group == SubSeq(b.items, b.i + 1, Min(b.i + batchSize, Len(b.items)))
      m == MapItems(b.type, group, c, rl, st, t)
  IN  [cache |-> m.cache, rl |-> m.rl,
       batch |-> [b EXCEPT !.pc = "group", !.promises = m.promises]]

\* Variant of Collect: the items that failed are not reported.
RECURSIVE Collect_DropFailed(_, _)
Collect_DropFailed(b, n) ==
  IF n > Len(b.promises) THEN b
  ELSE LET p == b.promises[n] IN
       IF p.error # ""
         THEN Collect_DropFailed(b, n + 1)
         ELSE Collect_DropFailed(
                [b EXCEPT !.results = Append(@, [item |-> p.item, data |-> p.data])], n + 1)

\* Variant of Collect: a group's outcomes are pushed in front.
RECURSIVE Collect_InFront(_, _)
Collect_InFront(b, n) ==
  IF n > Len(b.promises) THEN b
  ELSE LET p == b.promises[n] IN
       IF p.error # ""
         THEN Collect_InFront(
                [b EXCEPT !.errors = <<[item |-> p.item, error |-> p.error]>> \o @], n + 1)
         ELSE Collect_InFront(
                [b EXCEPT !.results = <<[item |-> p.item, data |-> p.data]>> \o @], n + 1)

\* for (const result of batchResults): to errors when result.error is set,
\* to results otherwise.
RECURSIVE Collect(_, _)
Collect(b, n) ==
  IF n > Len(b.promises) THEN b
  ELSE LET p == b.promises[n] IN
       IF p.error # ""
         THEN Collect([b EXCEPT !.errors = Append(@, [item |-> p.item, error |-> p.error])], n + 1)
         ELSE Collect([b EXCEPT !.results = Append(@, [item |-> p.item, data |-> p.data])], n + 1)

\* Variant of AfterAll: the loop pauses after every group, the last too.
AfterAll_AlwaysPause(b, t) ==
  IF \E n \in 1..Len(b.promises) : b.promises[n].state = "await"
    THEN b
    ELSE [Collect(b, 1) EXCEPT !.promises = << >>, !.pc = "delay",
                               !.wakeAt = t + BatchDelay]

\* What follows `await Promise.all(promises)` once every promise of the
\* group has settled: the outcomes are collected, then the loop pauses
\* before the next group or the function returns.
AfterAll(b, t) ==
  IF \E n \in 1..Len(b.promises) : b.promises[n].state = "await"
    THEN b
    ELSE LET d == [Collect(b, 1) EXCEPT !.promises = << >>] IN
         IF b.i + batchSize < Len(b.items)
           THEN [d EXCEPT !.pc = "delay", !.wakeAt = t + BatchDelay]
           ELSE [d EXCEPT !.pc = "done"]

BatchOutcome(b) ==
  [op |-> "batch", type |-> b.type, key |-> << >>, kind |-> b.pc, data |-> NoData]

\* The history variables after a group's first stretch.
Stamp(hist, b, t, messages) ==
  IF \E n \in 1..Len(b.promises) :
       b.promises[n].state = "await" \/ b.promises[n].error \in messages
    THEN [hist EXCEPT ![b.type] = t]
    ELSE hist

\* The loop turn that starts at b.i, from the statistics and caches given.
RunGroup(b, st, c) ==
  LET g == StartGroup(b, c, rateLimiter, st, now) IN
  /\ requestStats' = st
  /\ cache' = g.cache
  /\ rateLimiter' = g.rl
  /\ batch' = AfterAll(g.batch, now)
  /\ outcome' = BatchOutcome(batch')
  /\ issuedAt' = Stamp(issuedAt, g.batch, now, {})
  /\ consultedAt' = Stamp(consultedAt, g.batch, now, {RateMessage})
  /\ UNCHANGED <<form, view, active, now, slots>>

\* POST /api/geocode/batch and POST /api/places/details/batch: the tracking
\* middleware, the check of the array, then the first turn of the loop.
\* The clock of a run stops at MaxTime: a batch is posted while the pauses
\* between its groups still fit before that.
FitsClock(items, t) ==
  t + BatchDelay * ((Len(items) + batchSize - 1) \div batchSize - 1) <= MaxTime

\* Variant of BatchRequest: the array is not checked.
BatchRequest_NoCheck(type, body) ==
  /\ batch.pc = "idle"
  /\ FitsClock(body.items, now)
  /\ RunGroup([NoBatch EXCEPT !.type = type, !.items = body.items],
              StatsAfterCheck(requestStats, now),
              CacheAfterCheck(requestStats, cache, now))

BatchRequest(type, body) ==
  /\ batch.pc = "idle"
  /\ IF ~body.isArray \/ Len(body.items) = 0
       THEN /\ requestStats' = StatsAfterCheck(requestStats, now)
            /\ cache' = CacheAfterCheck(requestStats, cache, now)
            /\ outcome' = Started(type, << >>, "invalid", NoData)
            /\ UNCHANGED <<form, view, active, batch, now, rateLimiter, slots, issuedAt, consultedAt>>
       ELSE /\ FitsClock(body.items, now)
            /\ RunGroup([NoBatch EXCEPT !.type = type, !.items = body.items],
                        StatsAfterCheck(requestStats, now),
                        CacheAfterCheck(requestStats, cache, now))

GeocodeBatch(body) ==
  /\ "geocoding" \in active
  /\ BatchRequest("geocoding", body)

DetailsBatch(body) ==
  /\ "details" \in active
  /\ BatchRequest("details", body)

\* The 200 ms timer fires and the loop takes its next turn.
BatchResume ==
  /\ batch.pc = "delay"
  /\ now >= batch.wakeAt
  /\ RunGroup([batch EXCEPT !.i = @ + batchSize], requestStats, cache)

\* api.get of the n-th item of the group resolves.
BatchItemAnswers(n, status) ==
  /\ batch.pc = "group"
  /\ n \in 1..Len(batch.promises)
  /\ batch.promises[n].state = "await"
  /\ LET type == batch.type
         key == batch.promises[n].key
         data == [status |-> status]
     IN  /\ requestStats' = CountCall(requestStats, type)
         /\ IF IsSuccess(status)
              THEN /\ cache' = manageCacheSize(
                                 [cache EXCEPT ![type] = MapSet(cache[type], key, data, now)],
                                 type)
                   /\ batch' = AfterAll([batch EXCEPT !.promises[n].state = "settled",
                                                      !.promises[n].data = data], now)
              ELSE /\ cache' = cache
                   /\ batch' = AfterAll([batch EXCEPT !.promises[n].state = "settled",
                                                      !.promises[n].error = UpstreamMessage], now)
  /\ outcome' = BatchOutcome(batch')
  /\ UNCHANGED <<form, view, active, now, rateLimiter, slots, issuedAt, consultedAt>>

\* api.get of the n-th item of the group rejects.
BatchItemFails(n) ==
  /\ batch.pc = "group"
  /\ n \in 1..Len(batch.promises)
  /\ batch.promises[n].state = "await"
  /\ batch' = AfterAll([batch EXCEPT !.promises[n].state = "settled",
                                     !.promises[n].error = TransportMessage], now)
  /\ outcome' = BatchOutcome(batch')
  /\ UNCHANGED <<form, view, active, now, cache, requestStats, rateLimiter, slots, issuedAt, consultedAt>>

\* GET /api/geocode: the tracking middleware, `if (!address)`, then
\* handleCachedRequest under the normalized address.
GetGeocode(i, address) ==
  /\ "geocoding" \in active
  /\ slots[i].pc = "idle"
  /\ \A j \in Slots : j < i => slots[j].pc # "idle"
  /\ UNCHANGED <<form, view, active, batch, now>>
  /\ IF address = << >>
       THEN /\ requestStats' = StatsAfterCheck(requestStats, now)
            /\ cache' = CacheAfterCheck(requestStats, cache, now)
            /\ outcome' = Started("geocoding", << >>, "invalid", NoData)
            /\ UNCHANGED <<rateLimiter, slots, issuedAt, consultedAt>>
       ELSE HandleCachedRequest(i, "geocoding", normalizedAddress(address),
                                StatsAfterCheck(requestStats, now),
                                CacheAfterCheck(requestStats, cache, now))

\* GET /api/places/details: the tracking middleware, `if (!placeid)`, then
\* handleCachedRequest under `${placeid},${fields || ''}`.
GetDetails(i, placeid) ==
  /\ "details" \in active
  /\ slots[i].pc = "idle"
  /\ \A j \in Slots : j < i => slots[j].pc # "idle"
  /\ UNCHANGED <<form, view, active, batch, now>>
  /\ IF placeid = ""
       THEN /\ requestStats' = StatsAfterCheck(requestStats, now)
            /\ cache' = CacheAfterCheck(requestStats, cache, now)
            /\ outcome' = Started("details", << >>, "invalid", NoData)
            /\ UNCHANGED <<rateLimiter, slots, issuedAt, consultedAt>>
       ELSE HandleCachedRequest(i, "details", DetailsKey(placeid),
                                StatsAfterCheck(requestStats, now),
                                CacheAfterCheck(requestStats, cache, now))

BatchInit == Init /\ active = {"geocoding", "details"}

BatchNext ==
  \/ Tick
  \/ \E address \in Addresses : GetGeocode(1, address)
  \/ \E i \in Slots, status \in GoodStatus \cup BadStatus : UpstreamAnswers(i, status)
  \/ \E i \in Slots : UpstreamFails(i)
  \/ \E body \in Bodies(AddressLists) : GeocodeBatch(body)
  \/ \E body \in Bodies(PlaceIdLists) : DetailsBatch(body)
  \/ BatchResume
  \/ \E n \in 1..batchSize, status \in GoodStatus \cup BadStatus : BatchItemAnswers(n, status)
  \/ \E n \in 1..batchSize : BatchItemFails(n)

SpecBatch == BatchInit /\ [][BatchNext]_vars

\* A batch request under the scheduling the runtime gives it: the clock
\* advances, so the 200 ms timer fires and the loop resumes; and every
\* api.get settles, with an answer or with axios' 10 s timeout at the latest.
BatchSettles ==
  \/ \E n \in 1..batchSize, status \in GoodStatus \cup BadStatus :
       BatchItemAnswers(n, status)
  \/ \E n \in 1..batchSize : BatchItemFails(n)

\* The groups that follow the one a batch is running or pausing after.
GroupsLeft(b) == (Len(b.items) - b.i - 1) \div batchSize

\* The clock of a run stops at MaxTime. A batch that has begun is followed
\* to its end: at time t its pauses to come still fit before MaxTime.
Room(b, t) ==
  CASE b.pc = "group" -> t + BatchDelay * GroupsLeft(b) <= MaxTime
    [] b.pc = "delay" ->
         (IF t > b.wakeAt THEN t ELSE b.wakeAt) + BatchDelay * (GroupsLeft(b) - 1)
           <= MaxTime
    [] OTHER -> TRUE

LiveTick ==
  /\ Room(batch, now + 1)
  /\ Tick

LiveNext ==
  \/ LiveTick
  \/ \E body \in Bodies(AddressLists) : GeocodeBatch(body)
  \/ \E body \in Bodies(PlaceIdLists) : DetailsBatch(body)
  \/ BatchResume
  \/ BatchSettles

SpecBatchLive ==
  /\ BatchInit
  /\ [][LiveNext]_vars
  /\ WF_vars(LiveTick)
  /\ WF_vars(BatchResume)
  /\ WF_vars(BatchSettles)

\* The geocoding endpoints alone: single lookups next to batches of one
\* address each.
OneAddressLists == {<<address>> : address \in Addresses}

GeocodeNext ==
  \/ Tick
  \/ \E address \in Addresses : GetGeocode(1, address)
  \/ \E i \in Slots, status \in GoodStatus \cup BadStatus : UpstreamAnswers(i, status)
  \/ \E i \in Slots : UpstreamFails(i)
  \/ \E body \in Bodies(OneAddressLists) : GeocodeBatch(body)
  \/ \E status \in GoodStatus \cup BadStatus : BatchItemAnswers(1, status)
  \/ BatchItemFails(1)

SpecGeocode == BatchInit /\ [][GeocodeNext]_vars

\* The details endpoint next to batch requests whose array is missing, not
\* an array, or empty.
InputNext ==
  \/ Tick
  \/ \E i \in Slots, placeid \in PlaceIds : GetDetails(i, placeid)
  \/ \E i \in Slots, status \in GoodStatus \cup BadStatus : UpstreamAnswers(i, status)
  \/ \E i \in Slots : UpstreamFails(i)
  \/ \E body \in Bodies({<< >>}) : GeocodeBatch(body)
  \/ \E body \in Bodies({<< >>}) : DetailsBatch(body)

SpecInput == BatchInit /\ [][InputNext]_vars

\* ------------------------------------------------- eviction, small limits
\* The configured limits are far beyond what a bounded run stores, so the
\* lines that store an answer (cache[type].set, then manageCacheSize) are
\* also run on their own against a Map whose limit is EvictLimit.
OkData == [status |-> "OK"]

EvictKeys == 1..(EvictLimit + 1)

\* The Map after set(key) followed by manageCacheSize under `limit`.
StoreUnder(entries, key, t, limit) ==
  PurgeOldest(MapSet(entries, key, OkData, t), limit)

Stored(type, key, before, after) ==
  [op |-> "put", type |-> type, key |-> key,
   kind |-> IF Len(after) < Len(MapSet(before, key, OkData, now))
              THEN "purged" ELSE "kept",
   data |-> OkData]

\* One run stores into the Map of one category.
EvictInit == Init /\ active = {"geocoding", "places"}

Put(type, key) ==
  /\ type = "geocoding"
  /\ cache' = [cache EXCEPT ![type] = StoreUnder(@, key, now, EvictLimit)]
  /\ outcome' = Stored(type, key, cache[type], cache'[type])
  /\ UNCHANGED <<form, view, active, batch, now, requestStats, rateLimiter, slots, issuedAt, consultedAt>>

EvictNext ==
  \/ Tick
  \/ \E type \in Category, key \in EvictKeys : Put(type, key)

SpecEvict == EvictInit /\ [][EvictNext]_vars

\* Section 8, property 5: a Map of limit 10 receives the distinct keys
\* 1, 2, ..., 13 one after another, at any pace.
Inserted == IF outcome.op = "put" THEN outcome.key ELSE 0

Fill ==
  /\ Inserted < 13
  /\ cache' = [cache EXCEPT !.geocoding = StoreUnder(@, Inserted + 1, now, 10)]
  /\ outcome' = Stored("geocoding", Inserted + 1, cache.geocoding, cache'.geocoding)
  /\ UNCHANGED <<form, view, active, batch, now, requestStats, rateLimiter, slots, issuedAt, consultedAt>>

FillNext ==
  \/ Tick
  \/ Fill

SpecFill == EvictInit /\ [][FillNext]_vars

\* A Map of limit 10 receives the new keys 1, 2, ..., 12 in turn, while the
\* entries of keys 1 and 2 are stored again now and then (an expired entry
\* fetched anew keeps its place in the Map and gets a new timestamp).
KeysOf(entries) == {entries[n].key : n \in 1..Len(entries)}

Newest(entries) ==
  IF entries = << >> THEN 0
  ELSE CHOOSE k \in KeysOf(entries) : \A j \in KeysOf(entries) : j <= k

Insert ==
  /\ Newest(cache.geocoding) < 12
  /\ cache' = [cache EXCEPT !.geocoding =
                 StoreUnder(@, Newest(cache.geocoding) + 1, now, 10)]
  /\ outcome' = Stored("geocoding", Newest(cache.geocoding) + 1,
                       cache.geocoding, cache'.geocoding)
  /\ UNCHANGED <<form, view, active, batch, now, requestStats, rateLimiter, slots, issuedAt, consultedAt>>

Restore(key) ==
  /\ key \in KeysOf(cache.geocoding)
  /\ cache' = [cache EXCEPT !.geocoding = StoreUnder(@, key, now, 10)]
  /\ outcome' = Stored("geocoding", key, cache.geocoding, cache'.geocoding)
  /\ UNCHANGED <<form, view, active, batch, now, requestStats, rateLimiter, slots, issuedAt, consultedAt>>

ChurnNext ==
  \/ Tick
  \/ Insert
  \/ \E key \in {1, 2} : Restore(key)

SpecChurn == EvictInit /\ [][ChurnNext]_vars

\* ------------------------------------------------------------ vocabulary
\* The requests a client may send.
Requests == {r \in [type : Category, key : UNION {Keys[c] : c \in Category}] :
               r.key \in Keys[r.type]}

\* This step is the stretch that serves request r in some free slot.
Serves(r) == \E i \in Slots : Request(i, r.type, r.key)

\* What handleCachedRequest sees once the tracking middleware has run.
SeenStats == StatsAfterCheck(requestStats, now)
SeenCache == CacheAfterCheck(requestStats, cache, now)
Misses(r) == ~IsHit(SeenCache, r.type, r.key, now)

\* The step issues no upstream call and completes none.
NoUpstreamCall == slots' = slots /\ issuedAt' = issuedAt

InFlight == {i \in Slots : slots[i].pc = "await"}

\* ---------------------------------------------------------------- claims

\* C1: in every reachable state requestStats.total <= requestStats.limit,
\* also while several upstream calls are in flight at the same time.
C1_TotalWithinLimit == requestStats.total <= requestStats.limit

\* C2: once total >= limit, a fetch that misses the cache fails with the
\* request-limit error, issues no upstream call and leaves the counters, the
\* caches and the limiter's timestamps as they were; a fetch that hits the
\* cache leaves the counters as they were.
C2_LimitReachedFails ==
  [][\A r \in Requests : Serves(r) =>
       /\ (SeenStats.total >= SeenStats.limit /\ Misses(r)) =>
            /\ outcome' = Started(r.type, r.key, "limit", NoData)
            /\ NoUpstreamCall
            /\ requestStats' = requestStats
            /\ cache' = cache
            /\ rateLimiter' = rateLimiter
       /\ ~Misses(r) => requestStats' = SeenStats]_vars

C2_Witness ==
  /\ outcome.op = "start" /\ outcome.kind = "limit"
  /\ InFlight = {}
  /\ requestStats.total = requestStats.limit
  /\ \E c \in Category : cache[c] # << >>

\* C3: total = geocoding + places + details in every state, under any
\* interleaving of fetches and of automatic and manual resets.
C3_TotalIsSum ==
  requestStats.total =
    requestStats.geocoding + requestStats.places + requestStats.details

C3_Witness ==
  /\ requestStats.lastReset > StartTime
  /\ requestStats.total >= 2
  /\ Cardinality({c \in Category : requestStats[c] > 0}) >= 2

\* C4: an entry stored at t0 is served from the cache at every time before
\* t0 + expiry and is treated as absent from t0 + expiry on, although it
\* still sits in the map.
C4_ExpiryBoundary ==
  [][\A r \in Requests : Serves(r) =>
       LET n == Find(SeenCache[r.type], r.key)
           e == SeenCache[r.type][n]
       IN  n # 0 =>
             IF now - e.timestamp < CACHE_EXPIRY[r.type]
               THEN outcome' = Started(r.type, r.key, "hit", e.data)
               ELSE /\ outcome'.kind \in {"limit", "rate", "sent"}
                    /\ outcome'.data = NoData
                    /\ cache'[r.type][n] = e]_vars

C4_Witness ==
  /\ outcome.op = "start" /\ outcome.kind \in {"rate", "sent"}
  /\ LET n == Find(cache[outcome.type], outcome.key)
     IN  /\ n # 0
         /\ now - cache[outcome.type][n].timestamp = CACHE_EXPIRY[outcome.type]

\* C5: a fetch of (C, K) that follows a fetch of (C, K) which returned a
\* payload from upstream, inside the expiry window and with no reset in
\* between, returns the same payload from the cache without an upstream call.
C5_SecondFetchFromCache ==
  [][\A r \in Requests :
       (/\ Serves(r)
        /\ outcome.op = "complete" /\ outcome.kind = "data"
        /\ outcome.type = r.type /\ outcome.key = r.key
        /\ ~SessionElapsed(requestStats, now)) =>
          LET n == Find(cache[r.type], r.key)
          IN  /\ n # 0
              /\ now - cache[r.type][n].timestamp < CACHE_EXPIRY[r.type] =>
                   /\ outcome' = Started(r.type, r.key, "hit", outcome.data)
                   /\ NoUpstreamCall
                   /\ requestStats' = requestStats
                   /\ rateLimiter' = rateLimiter]_vars

C5_Witness ==
  /\ outcome.op = "start" /\ outcome.kind = "hit"
  /\ outcome.data.status = "ZERO_RESULTS"
  /\ requestStats[outcome.type] = 1
  /\ now > cache[outcome.type][Find(cache[outcome.type], outcome.key)].timestamp

\* C6: a fetch that hits the cache returns the stored payload and costs
\* nothing: the counters, the limiter's timestamps and the slots stay as
\* they were, and in the caches only the entry's lastAccessed changes.
C6_HitCostsNothing ==
  [][\A r \in Requests : (Serves(r) /\ ~Misses(r)) =>
       LET n == Find(SeenCache[r.type], r.key)
       IN  /\ outcome' = Started(r.type, r.key, "hit", SeenCache[r.type][n].data)
           /\ NoUpstreamCall
           /\ requestStats' = requestStats
           /\ rateLimiter' = rateLimiter
           /\ consultedAt' = consultedAt
           /\ cache' = [cache EXCEPT ![r.type][n].lastAccessed = now]]_vars

C6_Witness ==
  /\ outcome.op = "start" /\ outcome.kind = "hit"
  /\ requestStats.total >= requestStats.limit
  /\ now - rateLimiter[outcome.type] < minInterval
  /\ LET e == cache[outcome.type][Find(cache[outcome.type], outcome.key)]
     IN  e.lastAccessed > e.timestamp

\* C7 as stated: two upstream calls of a category start at least minInterval
\* apart, and a cache-missing fetch that arrives less than minInterval after
\* the category's last admitted call fails with the rate-limit error.
C7_Original ==
  [][\A r \in Requests : Serves(r) =>
       /\ slots' # slots =>
            (issuedAt[r.type] = -1 \/ now - issuedAt[r.type] >= minInterval)
       /\ (Misses(r) /\ issuedAt[r.type] # -1 /\ now - issuedAt[r.type] < minInterval) =>
            /\ outcome' = Started(r.type, r.key, "rate", NoData)
            /\ NoUpstreamCall]_vars

\* C7 as amended: the rejected fetch fails with the request-limit error when
\* the session limit is reached, and with the rate-limit error otherwise.
C7_MinimumSpacing ==
  [][\A r \in Requests : Serves(r) =>
       /\ slots' # slots =>
            (issuedAt[r.type] = -1 \/ now - issuedAt[r.type] >= minInterval)
       /\ (Misses(r) /\ issuedAt[r.type] # -1 /\ now - issuedAt[r.type] < minInterval) =>
            /\ outcome' = Started(r.type, r.key,
                                  IF LimitReached(SeenStats) THEN "limit" ELSE "rate",
                                  NoData)
            /\ NoUpstreamCall]_vars

C7_Witness ==
  /\ outcome.op = "start" /\ outcome.kind = "rate"
  /\ issuedAt[outcome.type] # -1
  /\ now - issuedAt[outcome.type] < minInterval
  /\ Find(cache[outcome.type], outcome.key) = 0

\* C8: a rejection by the rate limiter leaves every category's last-call
\* timestamp unchanged; a timestamp changes only when a request of its
\* category is admitted.
C8_RejectionKeepsTimestamps ==
  [][/\ \A r \in Requests :
          (Serves(r) /\ outcome'.kind = "rate") => rateLimiter' = rateLimiter
     /\ \A c \in Category :
          rateLimiter'[c] # rateLimiter[c] => (slots' # slots /\ issuedAt'[c] = now)]_vars

\* C9: a cache-missing fetch with quota available that arrives at least
\* minInterval after the last admitted call of its category is admitted,
\* whatever rejected attempts happened in between.
C9_AdmittedAfterInterval ==
  [][\A r \in Requests :
       (/\ Serves(r)
        /\ Misses(r)
        /\ ~LimitReached(SeenStats)
        /\ (issuedAt[r.type] = -1 \/ now - issuedAt[r.type] >= minInterval)) =>
          /\ outcome' = Started(r.type, r.key, "sent", NoData)
          /\ slots' # slots]_vars

\* C10: a request of one category changes no other category's timestamp,
\* a timestamp changes only in a step serving its own category, and a
\* request is rejected only on account of its own category's last request.
C10_CategoriesIndependent ==
  [][/\ \A r \in Requests : Serves(r) =>
          /\ \A u \in Category \ {r.type} : rateLimiter'[u] = rateLimiter[u]
          /\ outcome'.kind = "rate" =>
               (consultedAt[r.type] # -1 /\ now - consultedAt[r.type] < minInterval)
     /\ \A u \in Category :
          rateLimiter'[u] # rateLimiter[u] =>
            \E r \in Requests : r.type = u /\ Serves(r)]_vars

\* One category was rejected in this tick, and the other was then admitted.
C10_Witness ==
  /\ outcome.op = "start" /\ outcome.kind = "sent"
  /\ \E u \in Category \ {outcome.type} :
       /\ rateLimiter[u] = now
       /\ issuedAt[u] = now - 1
\* C11: whenever no put is mid-execution, a category's cache holds at most
\* its limit: the insertion that takes the Map over the limit is followed,
\* within the same stretch, by the eviction that brings it back.
C11_SizeWithinLimit ==
  \A c \in Category : Len(cache[c]) <= EvictLimit

\* An insertion took the Map to limit + 1 and the eviction ran.
C11_Witness ==
  /\ outcome.op = "put"
  /\ outcome.kind = "purged"
  /\ Find(cache.geocoding, outcome.key) # 0

\* C12, as stated: limit 10, the keys 1..13 inserted one after another
\* leave exactly 10 entries, the 10 newest keys, and at most the limit.
C12_Original ==
  Inserted = 13 =>
    /\ Len(cache.geocoding) = 10
    /\ KeysOf(cache.geocoding) = 4..13
    /\ Len(cache.geocoding) <= 10

\* C12, amended: the eviction runs on the 11th and on the 13th insertion
\* and removes floor(11 * 0.2) = 2 entries each time, so 9 entries are
\* left, the 9 newest keys, the 4 oldest being absent.
C12_NineNewestLeft ==
  Inserted = 13 =>
    /\ Len(cache.geocoding) = 9
    /\ KeysOf(cache.geocoding) = 5..13
    /\ Len(cache.geocoding) <= 10

C12_Witness ==
  /\ Inserted = 13
  /\ outcome.kind = "purged"
  /\ now > StartTime

\* C13: at every state with no upstream call in flight, requestStats.total
\* is the number of upstream calls attempted since the last reset, whatever
\* their outcome.  In particular no attempted call goes uncounted: total is
\* at least the number of categories whose last call was issued after the
\* reset.
C13_AttemptsCounted ==
  InFlight = {} =>
    requestStats.total >=
      Cardinality({c \in Category : issuedAt[c] > requestStats.lastReset})

\* C14: an answer with status ZERO_RESULTS is a result: the fetch returns
\* the payload, counts exactly one call and stores the payload, and a later
\* fetch of the key that finds the entry fresh is served from the cache
\* with no upstream call.
C14_ZeroResultsIsSuccess ==
  [][/\ \A i \in Slots :
          UpstreamAnswers(i, "ZERO_RESULTS") =>
            LET type == slots[i].type
                key == slots[i].key
                n == Find(cache'[type], key)
            IN  /\ outcome'.kind = "data"
                /\ outcome'.data.status = "ZERO_RESULTS"
                /\ requestStats'.total = requestStats.total + 1
                /\ requestStats'[type] = requestStats[type] + 1
                /\ n # 0
                /\ cache'[type][n].data.status = "ZERO_RESULTS"
                /\ cache'[type][n].timestamp = now
     /\ \A r \in Requests :
          LET n == Find(SeenCache[r.type], r.key) IN
          (/\ Serves(r)
           /\ n # 0
           /\ SeenCache[r.type][n].data.status = "ZERO_RESULTS"
           /\ now - SeenCache[r.type][n].timestamp < CACHE_EXPIRY[r.type])
            => /\ outcome'.kind = "hit"
               /\ outcome'.data.status = "ZERO_RESULTS"
               /\ NoUpstreamCall
               /\ requestStats'.total = SeenStats.total]_vars

\* A fetch has been served from an entry that holds a ZERO_RESULTS payload.
C14_Witness ==
  /\ outcome.kind = "hit"
  /\ outcome.data.status = "ZERO_RESULTS"
  /\ requestStats.total = 1

\* The state a session reset leaves at this instant: all counters 0, the
\* limit kept, the window started now, the three caches empty.
FreshWindow(st, c) ==
  /\ st = [total |-> 0, geocoding |-> 0, places |-> 0, details |-> 0,
           limit |-> requestStats.limit, lastReset |-> now]
  /\ \A t \in Category : c[t] = << >>

\* C15: once the clock is more than the session window past lastReset, the
\* next inbound operation first zeroes the counters, empties the caches and
\* restarts the window, keeping the limit, and only then runs: a fetch then
\* finds no entry and no call counted, so it goes on to the rate limiter.
\* Up to the window's length a fetch leaves the window as it is.
C15_ResetBeforeOperation ==
  [][/\ \A r \in Requests :
          Serves(r) =>
            IF now - requestStats.lastReset > SessionWindow
              THEN /\ FreshWindow(requestStats', cache')
                   /\ outcome'.kind \in {"sent", "rate"}
                   /\ consultedAt'[r.type] = now
              ELSE /\ requestStats' = requestStats
                   /\ \A t \in Category : Len(cache'[t]) = Len(cache[t])
     /\ (GetStats /\ now - requestStats.lastReset > SessionWindow)
          => FreshWindow(requestStats', cache')]_vars

\* A fetch arrived after the window had run out and started the new one.
C15_Witness ==
  /\ now - StartTime > SessionWindow
  /\ outcome.op = "start"
  /\ outcome.kind = "sent"
  /\ requestStats.lastReset = now
  /\ \E c \in Category : issuedAt[c] >= 0 /\ issuedAt[c] < now

\* C16: POST /api/stats/reset leaves the state an automatic session reset
\* leaves at the same instant: counters 0, caches empty, lastReset = now,
\* limit unchanged; neither touches the rate limiter or the calls in flight.
C16_ManualResetAsAutomatic ==
  [][/\ ResetStats
          => /\ FreshWindow(requestStats', cache')
             /\ UNCHANGED <<rateLimiter, slots>>
     /\ (GetStats /\ now - requestStats.lastReset > SessionWindow)
          => /\ FreshWindow(requestStats', cache')
             /\ UNCHANGED <<rateLimiter, slots>>]_vars

\* A reset was ordered inside the window, after calls had been counted.
C16_Witness ==
  /\ outcome.op = "reset"
  /\ now > StartTime
  /\ now - StartTime <= SessionWindow
  /\ requestStats.lastReset = now
  /\ requestStats.total = 0
  /\ \E c \in Category : issuedAt[c] >= 0

\* The items of a results or errors array, in the array's order.
ItemsOf(list) == [n \in 1..Len(list) |-> list[n].item]

Occurrences(seq, x) == Cardinality({n \in 1..Len(seq) : seq[n] = x})

\* The elements of seq at the positions in S, in the order of seq.
RECURSIVE Pick(_, _, _)
Pick(seq, S, n) ==
  IF n > Len(seq) THEN << >>
  ELSE IF n \in S THEN <<seq[n]>> \o Pick(seq, S, n + 1)
  ELSE Pick(seq, S, n + 1)

Messages(list) == {list[n].error : n \in 1..Len(list)}

\* C17: a batch on a non-empty array never fails as a whole: it goes from
\* group to group to its end, and when it returns every input item is in
\* results or in errors, as often as it is in the input, so that
\* |results| + |errors| = |items|; meanwhile the two arrays hold exactly the
\* items of the groups that have completed.
C17_EveryItemReported ==
  /\ batch.pc \in {"idle", "group", "delay", "done"}
  /\ batch.pc = "group" => Len(batch.results) + Len(batch.errors) = batch.i
  /\ batch.pc = "delay" => Len(batch.results) + Len(batch.errors) = batch.i + batchSize
  /\ batch.pc = "done" =>
       /\ Len(batch.results) + Len(batch.errors) = Len(batch.items)
       /\ \A n \in 1..Len(batch.items) :
            Occurrences(batch.items, batch.items[n]) =
              Occurrences(ItemsOf(batch.results), batch.items[n])
              + Occurrences(ItemsOf(batch.errors), batch.items[n])

\* A batch returned with a result, a rate-limited item and an item whose
\* upstream call failed.
C17_Witness ==
  /\ batch.pc = "done"
  /\ batch.results # << >>
  /\ RateMessage \in Messages(batch.errors)
  /\ Messages(batch.errors) \cap {UpstreamMessage, TransportMessage, LimitMessage} # {}

\* C18: when a batch returns, results and errors each list their items in
\* the order of the input: the input splits into two subsequences, one
\* equal to results and the other to errors.
C18_InputOrderKept ==
  batch.pc = "done" =>
    \E S \in SUBSET (1..Len(batch.items)) :
      /\ ItemsOf(batch.results) = Pick(batch.items, S, 1)
      /\ ItemsOf(batch.errors) = Pick(batch.items, (1..Len(batch.items)) \ S, 1)

\* A batch of two groups returned several results and several errors.
C18_Witness ==
  /\ batch.pc = "done"
  /\ batch.i = batchSize
  /\ Len(batch.results) >= 2
  /\ Len(batch.errors) >= 2

\* C19: geocodeBatch on seven distinct addresses, the 4th being the empty
\* string, runs two groups and returns the six others in results, in input
\* order, and the 4th alone in errors (given that the request limit is not
\* reached and the provider answers the calls it receives with a result).
C19_SixOfSevenSucceed ==
  (/\ batch.pc = "done"
   /\ batch.type = "geocoding"
   /\ Len(batch.items) = 7
   /\ batch.items = Seven
   /\ Messages(batch.errors) \cap {UpstreamMessage, TransportMessage, LimitMessage} = {})
    => /\ batch.i = batchSize
       /\ ItemsOf(batch.results) = Pick(Seven, {1, 2, 3, 5, 6, 7}, 1)
       /\ ItemsOf(batch.errors) = << << >> >>

\* C20: GET /api/geocode with an address that is empty or only whitespace
\* is refused as invalid input: no upstream call is issued and the caches,
\* counters and rate-limiter timestamps stay as they are.
C20_BlankAddressRefused ==
  [][\A i \in Slots, address \in Addresses :
       (GetGeocode(i, address) /\ trim(address) = << >>)
         => /\ outcome'.kind = "invalid"
            /\ UNCHANGED <<cache, requestStats, rateLimiter, slots, issuedAt>>]_vars

\* This step serves a request that lacks its input: a batch whose array is
\* missing, not an array or empty, or a details request with no place id.
LacksInput ==
  \/ \E body \in Bodies({<< >>}) : GeocodeBatch(body) \/ DetailsBatch(body)
  \/ \E i \in Slots : GetDetails(i, "")

\* C21, as stated: such a request is refused as invalid input, no upstream
\* call is issued, and caches, counters and limiter timestamps are unchanged.
C21_Original ==
  [][LacksInput =>
       /\ outcome'.kind = "invalid"
       /\ UNCHANGED <<cache, requestStats, rateLimiter, slots, issuedAt, batch>>]_vars

\* C21, amended: such a request is refused as invalid input with no
\* upstream call and no change to the limiter; caches and counters are
\* unchanged unless the session window has run out, in which case the
\* tracking middleware has reset them before the request is looked at.
C21_LacksInputRefused ==
  [][LacksInput =>
       /\ outcome'.kind = "invalid"
       /\ UNCHANGED <<rateLimiter, slots, issuedAt, consultedAt, batch>>
       /\ IF now - requestStats.lastReset > SessionWindow
            THEN FreshWindow(requestStats', cache')
            ELSE UNCHANGED <<cache, requestStats>>]_vars

\* A request lacking its input was refused while calls were counted and
\* an entry was cached.
C21_Witness ==
  /\ outcome.kind = "invalid"
  /\ requestStats.total >= 1
  /\ cache.details # << >>

\* What two addresses that differ only in letter case or in blanks around
\* them have in common: the stretch from the first to the last character
\* that is not a blank, in lower case.
Letters(address) ==
  LET inked == {n \in 1..Len(address) : address[n] # " "}
      first == CHOOSE n \in inked : \A m \in inked : n <= m
      last == CHOOSE n \in inked : \A m \in inked : m <= n
  IN  IF inked = {} THEN << >>
      ELSE [k \in 1..(last - first + 1) |->
              CASE address[first + k - 1] = "A" -> "a"
                [] address[first + k - 1] = "B" -> "b"
                [] OTHER -> address[first + k - 1]]

\* C22: geocode lookups, single or batch items, whose addresses differ only
\* in letter case or surrounding blanks use one cache key: a lookup that
\* finds a fresh entry stored for such an address is a hit, returns that
\* entry's payload and issues no upstream call, and the geocoding cache
\* never holds two entries for addresses with the same letters.
C22_OneKeyPerAddress ==
  [][/\ \A address \in Addresses \ {<< >>} :
          LET n == Find(SeenCache.geocoding, Letters(address)) IN
          (/\ outcome'.op = "start"
           /\ n # 0
           /\ now - SeenCache.geocoding[n].timestamp < CACHE_EXPIRY.geocoding
           /\ \E i \in Slots : GetGeocode(i, address))
            => /\ outcome'.kind = "hit"
               /\ outcome'.data = SeenCache.geocoding[n].data
               /\ NoUpstreamCall
     /\ \A list \in (AddressLists \cup OneAddressLists) \ {<< >>} :
          LET n == Find(SeenCache.geocoding, Letters(list[1])) IN
          (/\ batch.pc = "idle" /\ batch'.type = "geocoding" /\ batch'.items = list
           /\ n # 0
           /\ now - SeenCache.geocoding[n].timestamp < CACHE_EXPIRY.geocoding
           /\ GeocodeBatch([isArray |-> TRUE, items |-> list]))
            => IF batch'.pc = "group"
                 THEN /\ batch'.promises[1].state = "settled"
                      /\ batch'.promises[1].error = ""
                      /\ batch'.promises[1].data = SeenCache.geocoding[n].data
                 ELSE /\ batch'.results # << >>
                      /\ batch'.results[1] =
                           [item |-> list[1], data |-> SeenCache.geocoding[n].data]
     /\ cache'.geocoding # cache.geocoding =>
          \A m, n \in 1..Len(cache'.geocoding) :
            m # n => Letters(cache'.geocoding[m].key) # Letters(cache'.geocoding[n].key)]_vars

\* A batch asking for "A " returned the entry that a call for "a" stored.
C22_Witness ==
  /\ batch.pc = "done"
  /\ batch.type = "geocoding"
  /\ batch.items = << <<"A", " ">> >>
  /\ Len(batch.results) = 1
  /\ outcome.op = "batch"
  /\ Len(cache.geocoding) = 1
  /\ cache.geocoding[1].key = <<"a">>
  /\ cache.geocoding[1].lastAccessed > cache.geocoding[1].timestamp

\* C23: every fetch checks the session window right before its cache
\* lookup, the fetches of a later group of a batch included: when the
\* window has run out by the time the group starts, its items are checked
\* against the new window's count, which is zero, so none of them fails on
\* the request limit.
C23_LaterGroupChecksSession ==
  [][(BatchResume /\ now - requestStats.lastReset > SessionWindow) =>
       /\ \A n \in 1..Len(batch'.promises) : batch'.promises[n].error # LimitMessage
       /\ \A n \in (Len(batch.errors) + 1)..Len(batch'.errors) :
            batch'.errors[n].error # LimitMessage]_vars

\* C24: on a cache miss the request limit is checked before the rate
\* limiter: with total >= limit the fetch fails on the limit, whether or
\* not the category is inside its minimum interval, and the limiter is not
\* asked, so its timestamps stay; the limiter is asked (the fetch is sent
\* or rate-limited) only when the limit check has passed.
C24_QuotaBeforeRate ==
  [][\A r \in Requests : Serves(r) =>
       /\ (Misses(r) /\ SeenStats.total >= SeenStats.limit)
            => /\ outcome'.kind = "limit"
               /\ rateLimiter' = rateLimiter
               /\ consultedAt' = consultedAt
       /\ (outcome'.kind \in {"sent", "rate"} \/ rateLimiter' # rateLimiter)
            => /\ Misses(r)
               /\ SeenStats.total < SeenStats.limit]_vars

\* A miss inside the category's minimum interval failed on the limit.
C24_Witness ==
  /\ outcome.op = "start"
  /\ outcome.kind = "limit"
  /\ now - rateLimiter[outcome.type] < minInterval
  /\ rateLimiter[outcome.type] = issuedAt[outcome.type]

\* C25: a fetch that fails, on the request limit, on the rate limiter, on
\* a provider status other than OK / ZERO_RESULTS or on a transport failure
\* or timeout, leaves every cache as it found it (for the first two: as the
\* session check of its request left it): nothing is added, overwritten or
\* evicted, so no cache ever holds an error answer and no hit returns one.
C25_FailureLeavesCaches ==
  [][/\ \A r \in Requests :
          (Serves(r) /\ outcome'.kind \in {"limit", "rate"}) => cache' = SeenCache
     /\ \A i \in Slots :
          (UpstreamFails(i) \/ \E status \in BadStatus : UpstreamAnswers(i, status))
            => /\ cache' = cache
               /\ outcome'.kind \in {"upstream", "transport"}
     /\ \A c \in Category : \A n \in 1..Len(cache'[c]) :
          cache'[c][n].data.status \in GoodStatus
     /\ outcome'.kind = "hit" => outcome'.data.status \in GoodStatus]_vars

\* The provider refused a call for a key whose earlier entry is still in
\* the Map.
C25_Witness ==
  /\ outcome.op = "complete"
  /\ outcome.kind = "upstream"
  /\ LET n == Find(cache[outcome.type], outcome.key)
     IN  /\ n # 0
         /\ cache[outcome.type][n].data.status \in GoodStatus

\* This step stores under `key` into the Map of limit 10.
Stores(key) == (Insert /\ key = Newest(cache.geocoding) + 1) \/ Restore(key)

\* The Map between set(key) and manageCacheSize.
AfterSet(key) == MapSet(cache.geocoding, key, OkData, now)

\* Entry m of the Map after set(key) is still there after manageCacheSize.
Kept(key, m) ==
  \E k \in 1..Len(cache'.geocoding) : cache'.geocoding[k] = AfterSet(key)[m]

\* manageCacheSize removed the floor(0.2 * n) entries that come first by
\* timestamp, and by place in the Map among equal timestamps, and not the
\* entry just set.
RemovedAreOldest(key) ==
  LET before == AfterSet(key)
      n == Len(before)
  IN  /\ Len(cache'.geocoding) = n - (n \div 5)
      /\ \A k \in 1..Len(cache'.geocoding) :
           \E m \in 1..n : cache'.geocoding[k] = before[m]
      /\ Kept(key, Find(before, key))
      /\ \A m1, m2 \in 1..n :
           (~Kept(key, m1) /\ Kept(key, m2)) =>
             \/ before[m1].timestamp < before[m2].timestamp
             \/ before[m1].timestamp = before[m2].timestamp /\ m1 < m2

\* C26, as stated: an eviction on n > limit entries removes exactly
\* floor(0.2 * n) of them, those with the smallest timestamps (insertion
\* order deciding among equals), keeps every entry whose timestamp is
\* larger than that of a removed one, and never removes the entry just set.
C26_Original ==
  [][\A key \in 1..12 :
       (Stores(key) /\ Len(AfterSet(key)) > 10) =>
         /\ RemovedAreOldest(key)
         /\ \A m1, m2 \in 1..Len(AfterSet(key)) :
              (/\ ~Kept(key, m1)
               /\ AfterSet(key)[m2].timestamp > AfterSet(key)[m1].timestamp)
                => Kept(key, m2)]_vars

\* C26, amended: ... and no entry that is kept has a smaller timestamp
\* than one that is removed.
C26_EvictsOldestFifth ==
  [][\A key \in 1..12 :
       (Stores(key) /\ Len(AfterSet(key)) > 10) => RemovedAreOldest(key)]_vars

\* An eviction spared key 1, stored again since, and removed others.
C26_Witness ==
  /\ outcome.op = "put"
  /\ outcome.kind = "purged"
  /\ Len(cache.geocoding) = 9
  /\ 1 \in KeysOf(cache.geocoding)
  /\ 3 \notin KeysOf(cache.geocoding)

\* The timestamp under which (type, key) is stored in the caches c, or -1.
StoredAt(c, type, key) ==
  IF Find(c[type], key) = 0 THEN -1 ELSE c[type][Find(c[type], key)].timestamp

\* C27: hits do not extend an entry's life. A fetch at or after
\* timestamp + expiry is not served from the cache however recently the
\* entry was hit; a hit changes nothing of the entry but lastAccessed; and
\* an entry's timestamp is set only by a successful upstream answer for its
\* key, to the time of that answer.
C27_HitsDoNotExtendLife ==
  [][/\ \A r \in Requests :
          LET n == Find(SeenCache[r.type], r.key)
              e == SeenCache[r.type][n]
          IN  (n # 0 /\ Serves(r)) =>
                /\ now - e.timestamp >= CACHE_EXPIRY[r.type] =>
                     /\ outcome'.kind # "hit"
                     /\ cache'[r.type][n] = e
                /\ outcome'.kind = "hit" =>
                     /\ cache'[r.type][n] = [e EXCEPT !.lastAccessed = now]
                     /\ \A c \in Category : \A m \in 1..Len(SeenCache[c]) :
                          (c # r.type \/ m # n) => cache'[c][m] = SeenCache[c][m]
     /\ \A r \in Requests :
          (/\ StoredAt(cache', r.type, r.key) # -1
           /\ StoredAt(cache', r.type, r.key) # StoredAt(cache, r.type, r.key)) =>
             /\ outcome' = [op |-> "complete", type |-> r.type, key |-> r.key,
                            kind |-> "data", data |-> outcome'.data]
             /\ StoredAt(cache', r.type, r.key) = now]_vars

\* A fetch missed on an entry that had reached its expiry although its last
\* hit was less than the expiry ago.
C27_Witness ==
  /\ outcome.op = "start" /\ outcome.kind \in {"limit", "rate", "sent"}
  /\ LET n == Find(cache[outcome.type], outcome.key)
     IN  /\ n # 0
         /\ cache[outcome.type][n].lastAccessed > cache[outcome.type][n].timestamp
         /\ now - cache[outcome.type][n].timestamp >= CACHE_EXPIRY[outcome.type]
         /\ now - cache[outcome.type][n].lastAccessed < CACHE_EXPIRY[outcome.type]

\* The promises of the running group whose api.get has not settled.
Unsettled == {n \in 1..Len(batch.promises) : batch.promises[n].state = "await"}

\* C28: the groups of a batch run strictly one after another and hold at
\* most batchSize items each. While a group runs, its promises are those of
\* the items from batch.i on, at most batchSize of them, every item before
\* batch.i has been collected as a result or an error, and at most
\* batchSize fetches of the batch are unsettled; between groups none is.
C28_GroupsOneAtATime ==
  batch.pc # "idle" =>
    /\ batch.i % batchSize = 0
    /\ Cardinality(Unsettled) <= batchSize
    /\ batch.pc = "group" =>
         /\ Unsettled # {}
         /\ Len(batch.promises) = Min(batchSize, Len(batch.items) - batch.i)
         /\ \A n \in 1..Len(batch.promises) :
              batch.promises[n].item = batch.items[batch.i + n]
         /\ Len(batch.results) + Len(batch.errors) = batch.i
    /\ batch.pc \in {"delay", "done"} =>
         /\ batch.promises = << >>
         /\ Len(batch.results) + Len(batch.errors) =
              Min(batch.i + batchSize, Len(batch.items))

\* The second group of a batch runs with a fetch of its own unsettled,
\* the first group's five items all collected.
C28_Witness ==
  /\ batch.pc = "group"
  /\ batch.i = batchSize
  /\ Unsettled # {}
  /\ Len(batch.results) + Len(batch.errors) = batchSize
  /\ Len(batch.results) > 0

\* The number of groups of a list of n items.
Groups(n) == (n + batchSize - 1) \div batchSize

\* C29: a batch call on a non-empty list returns, every upstream call
\* settling in the end. The loop pauses only where another group follows,
\* so not after the last one, and it is over after ceil(|items| / 5) groups.
C29_BatchReturns ==
  /\ [](batch.pc = "delay" =>
          /\ batch.i + batchSize < Len(batch.items)
          /\ batch.wakeAt <= now + BatchDelay)
  /\ [](batch.pc = "done" =>
          /\ batch.i = batchSize * (Groups(Len(batch.items)) - 1)
          /\ Len(batch.results) + Len(batch.errors) = Len(batch.items))
  /\ (batch.pc \in {"group", "delay"}) ~> (batch.pc = "done")

\* A batch of seven items returned after its second group, one pause after
\* it began.
C29_Witness ==
  /\ batch.pc = "done"
  /\ Len(batch.items) = 7
  /\ batch.i = batchSize
  /\ batch.wakeAt > 0
  /\ now >= batch.wakeAt

\* The slots whose api.get is issued in this step.
Issued == {i \in Slots : slots[i].pc # "await" /\ slots'[i].pc = "await"}

\* C30: one invocation issues at most one upstream call. A call is issued
\* only by the stretch that admits a fetch, one per stretch; a fetch
\* refused for the request limit or the rate limit issues none; and the
\* step in which a call settles, with an answer or a failure, hands the
\* outcome on, leaves its slot idle and issues no call in its place.
C30_NoRetry ==
  [][/\ Cardinality(Issued) <= 1
     /\ Issued # {} =>
          /\ outcome'.op = "start" /\ outcome'.kind = "sent"
          /\ \A i \in Issued : /\ slots'[i].type = outcome'.type
                                /\ slots'[i].key = outcome'.key
     /\ issuedAt' # issuedAt => Issued # {}
     /\ (outcome'.op = "start" /\ outcome'.kind \in {"limit", "rate"}) =>
          slots' = slots
     /\ \A i \in Slots : (slots[i].pc = "await" /\ slots'[i] # slots[i]) =>
          /\ slots'[i] = Idle
          /\ outcome'.op = "complete"
          /\ outcome'.type = slots[i].type /\ outcome'.key = slots[i].key
     /\ (\E i \in InFlight : slots'[i] # slots[i]) =>
          /\ outcome'.kind \in {"data", "upstream", "transport"}
          /\ Cardinality({i \in Slots : slots'[i].pc = "await"}) =
               Cardinality(InFlight) - 1
          /\ Issued = {}]_vars

\* A call failed in transport and nothing is in flight after it.
C30_Witness ==
  /\ outcome.op = "complete" /\ outcome.kind = "transport"
  /\ InFlight = {}
  /\ issuedAt[outcome.type] < now
  /\ requestStats.total = 0

\* The call counters of the statistics st: the total and one per category.
Counters(st) == [c \in Category \cup {"total"} |-> st[c]]

\* C31: between two resets the counters never decrease. A step leaves them
\* as they are, or adds exactly one to the total and to one category
\* together, or sets them all to 0; and they are set to 0 only by a reset,
\* the automatic one of an elapsed session or the manual one.
C31_CountersMonotone ==
  [][\/ Counters(requestStats') = Counters(requestStats)
     \/ \E type \in Category :
          /\ Counters(requestStats') =
               [Counters(requestStats) EXCEPT !.total = @ + 1, ![type] = @ + 1]
          /\ requestStats'.lastReset = requestStats.lastReset
     \/ /\ \A c \in Category \cup {"total"} : requestStats'[c] = 0
        /\ requestStats'.lastReset = now
        /\ SessionElapsed(requestStats, now) \/ outcome'.op = "reset"]_vars

\* A call was counted in the window a reset opened, after calls had been
\* counted in the window before.
C31_Witness ==
  /\ requestStats.lastReset > StartTime
  /\ requestStats.total = 1
  /\ outcome.op = "complete" /\ outcome.kind = "upstream"
  /\ requestStats[outcome.type] = 1

\* C32: a call is counted before its answer is stored, in one stretch, so
\* in every reachable state no category's cache holds more entries than
\* that category's counter has counted, whatever the interleaving of
\* fetches and resets.
C32_EntriesWithinCounter ==
  \A c \in Category : Len(cache[c]) <= requestStats[c]

\* After a reset, an answer was counted and stored: the cache holds as many
\* entries as the counter counts.
C32_Witness ==
  /\ requestStats.lastReset > StartTime
  /\ outcome.op = "complete" /\ outcome.kind = "data"
  /\ Len(cache[outcome.type]) = 2
  /\ requestStats[outcome.type] = 2

\* C33: after a reset, what the caches hold and what the counters count
\* comes from upstream calls issued after that reset. So a category whose
\* counter is above 0, or whose cache holds an entry, has had a call issued
\* since the last reset.
C33_NothingFromBeforeReset ==
  \A c \in Category :
    (requestStats[c] > 0 \/ cache[c] # << >>) =>
      issuedAt[c] >= requestStats.lastReset

\* This step begins a group of a batch: the first one of a request just
\* posted, or the next one after the pause.
BeginsGroup ==
  /\ batch.pc \in {"idle", "delay"}
  /\ batch'.pc # "idle"
  /\ batch' # batch

\* The caches the group's callbacks look into: behind the tracking
\* middleware for the first group, as they are for a later one.
GroupCache ==
  IF batch.pc = "idle" THEN CacheAfterCheck(requestStats, cache, now) ELSE cache

\* The places in the list of the group's items that find no fresh entry.
GroupMisses ==
  {n \in (batch'.i + 1)..Min(batch'.i + batchSize, Len(batch'.items)) :
     LET key == ItemKey(batch'.type, batch'.items[n])
         m == Find(GroupCache[batch'.type], key)
     IN  \/ m = 0
         \/ now - GroupCache[batch'.type][m].timestamp >= CACHE_EXPIRY[batch'.type]}

\* The errors the group has collected or holds in its promises after the
\* step that began it.
GroupErrors ==
  {batch'.promises[n].error : n \in {k \in 1..Len(batch'.promises) :
                                        batch'.promises[k].error # ""}}
    \cup {batch'.errors[n].error :
            n \in (IF batch.pc = "idle" THEN 1 ELSE Len(batch.errors) + 1)
                     ..Len(batch'.errors)}

GroupFailed ==
  Cardinality({k \in 1..Len(batch'.promises) : batch'.promises[k].error # ""})
    + Len(batch'.errors) - (IF batch.pc = "idle" THEN 0 ELSE Len(batch.errors))

C35_OneCallPerKeyInFlight ==
  \A i, j \in InFlight :
    (slots[i].type = slots[j].type /\ slots[i].key = slots[j].key) => i = j

\* ------------------------------------------------------ AddressForm.jsx
\* The form of the frontend: two address inputs, and handleSubmit, which
\* looks both addresses up with getCoordinatesWithRetry. RetryDelay stands
\* for the 1000 ms of the first pause. What the backend answers to a lookup
\* is left open: a result, or one of two errors.
server ==
  <<active, now, cache, requestStats, rateLimiter, slots, outcome, issuedAt,
    consultedAt, batch>>

FormAddresses == {"", " ", "x", "y"}
FetchErrors == {"Rate limit reached", "Could not find the address"}
RequiredMessage == "Both addresses are required"

\* !address.trim()
Blank(address) == address \in {"", " "}

\* onChange of an input; the inputs are disabled while isLoading.
SetAddress(n, address) ==
  /\ ~form.isLoading
  /\ form.address[n] # address
  /\ form' = [form EXCEPT !.address[n] = address]
  /\ UNCHANGED <<server, view>>

\* getCoordinatesWithRetry(address, retries, delay) up to the await of
\* fetchCoordinates' fetch: one request is sent.
Attempt(lookup, r, delay) ==
  [lookup EXCEPT !.pc = "fetch", !.retries = r, !.delay = delay, !.left = 0,
                 !.sent = @ + 1]

\* handleSubmit up to `await Promise.all`. The button is disabled while
\* isLoading; a submission is looked at once the lookups of the one before
\* have all ended.
Submit ==
  /\ ~form.isLoading
  /\ \A n \in 1..2 : form.lookup[n].pc \notin {"fetch", "wait"}
  /\ IF Blank(form.address[1]) \/ Blank(form.address[2])
       THEN form' = [form EXCEPT !.error = RequiredMessage, !.isLoading = FALSE]
     ELSE IF form.address = form.previousAddresses
       THEN form' = [form EXCEPT !.error = "", !.isLoading = FALSE]
     ELSE form' = [form EXCEPT !.error = "", !.isLoading = TRUE, !.pending = TRUE,
                               !.coords = << >>,
                               !.lookup = [n \in 1..2 |->
                                             Attempt(NoLookup, retries, RetryDelay)]]
  /\ UNCHANGED <<server, view>>

\* What follows `await Promise.all([...])` once a lookup has settled: the
\* catch and finally blocks when it was rejected for good, the then-branch
\* when both have resolved, nothing while one is still under way.
AfterLookup(f, n) ==
  IF ~f.pending THEN f
  ELSE IF f.lookup[n].pc = "failed"
    THEN [f EXCEPT !.error = f.lookup[n].error, !.isLoading = FALSE,
                   !.pending = FALSE]
  ELSE IF \A k \in 1..2 : f.lookup[k].pc = "done"
    THEN [f EXCEPT !.previousAddresses = f.address, !.coords = f.address,
                   !.isLoading = FALSE, !.pending = FALSE]
  ELSE f

\* The fetch of lookup n settles: with coordinates, or with an error, which
\* is thrown on when no retry is left and starts the pause otherwise.
LookupSettles(n, result) ==
  /\ form.lookup[n].pc = "fetch"
  /\ LET l == form.lookup[n] IN
     form' =
       AfterLookup(
         [form EXCEPT !.lookup[n] =
            IF result = "ok" THEN [l EXCEPT !.pc = "done"]
            ELSE IF l.retries = 0 THEN [l EXCEPT !.pc = "failed", !.error = result]
            ELSE [l EXCEPT !.pc = "wait", !.left = l.delay, !.error = result]],
         n)
  /\ UNCHANGED <<server, view>>

\* Time passes for the pauses under way.
TimerTick ==
  /\ \E n \in 1..2 : form.lookup[n].pc = "wait" /\ form.lookup[n].left > 0
  /\ form' = [form EXCEPT !.lookup =
                [n \in 1..2 |->
                   IF form.lookup[n].pc = "wait" /\ form.lookup[n].left > 0
                     THEN [form.lookup[n] EXCEPT !.left = @ - 1]
                     ELSE form.lookup[n]]]
  /\ UNCHANGED <<server, view>>

\* Variant of RetryFires: the retry goes on with as many retries left.
RetryFires_SameRetries(n) ==
  /\ form.lookup[n].pc = "wait"
  /\ form.lookup[n].left = 0
  /\ form' = [form EXCEPT !.lookup[n] = Attempt(@, @.retries, @.delay * 2)]
  /\ UNCHANGED <<server, view>>

\* The pause is over: getCoordinatesWithRetry(address, retries - 1, delay * 2).
RetryFires(n) ==
  /\ form.lookup[n].pc = "wait"
  /\ form.lookup[n].left = 0
  /\ form' = [form EXCEPT !.lookup[n] = Attempt(@, @.retries - 1, @.delay * 2)]
  /\ UNCHANGED <<server, view>>

FormNext ==
  \/ \E n \in 1..2, address \in FormAddresses : SetAddress(n, address)
  \/ Submit
  \/ \E n \in 1..2, result \in {"ok"} \cup FetchErrors : LookupSettles(n, result)
  \/ TimerTick
  \/ \E n \in 1..2 : RetryFires(n)

\* Every fetch settles, timers run and fire.
SpecForm ==
  /\ Init
  /\ [][FormNext]_vars
  /\ \A n \in 1..2 : WF_vars(\E result \in {"ok"} \cup FetchErrors : LookupSettles(n, result))
  /\ WF_vars(TimerTick)
  /\ \A n \in 1..2 : WF_vars(RetryFires(n))

\* C36: a submission sends at most retries + 1 = 3 requests per address,
\* the pause after the k-th failed attempt being RetryDelay * 2^(k-1), and
\* gives up with the error of the last attempt; and every submission ends
\* with isLoading false again: at once when an address is blank or the
\* addresses are those of the last successful submission (no request is
\* sent), and otherwise when the lookups have succeeded or one has failed.
C36_FormGivesUp ==
  /\ [](\A n \in 1..2 :
          /\ form.lookup[n].sent <= retries + 1
          /\ form.lookup[n].pc = "wait" =>
               /\ form.lookup[n].delay = RetryDelay * 2 ^ (form.lookup[n].sent - 1)
               /\ form.lookup[n].left <= form.lookup[n].delay
          /\ form.lookup[n].pc = "failed" => form.lookup[n].sent = retries + 1)
  /\ [](form.isLoading <=> form.pending)
  /\ [][(form.pending /\ ~form'.pending /\ form'.error # "") =>
          \E n \in 1..2 : /\ form.lookup[n].pc = "fetch"
                           /\ form'.lookup[n].pc = "failed"
                           /\ form'.lookup[n].sent = retries + 1
                           /\ form'.error = form'.lookup[n].error]_vars
  /\ form.isLoading ~> ~form.isLoading

\* A submission gave up after the third request for an address.
C36_Witness ==
  /\ ~form.isLoading
  /\ form.error \in FetchErrors
  /\ \E n \in 1..2 : /\ form.lookup[n].pc = "failed"
                       /\ form.lookup[n].sent = 3
                       /\ form.lookup[n].error = form.error

\* ------------------------------------------------------------ MapView
\* MapView of the frontend. The coords it is given are 0 for the empty
\* list and 1..MaxCoords for pairs of different places; a restaurant list
\* is named by the coords whose midpoint the request asked about (0: the
\* empty list). Each run of the fetch effect has a number, which names its
\* timer and its request.
Coords == 0..MaxCoords
Answers == {"OK", "ZERO_RESULTS", "OVER_QUERY_LIMIT", "rejected"}

\* The cleanup of the fetch effect's last run, then the effect itself on
\* coords c with the map as it is in state.
FetchEffect(v, c) ==
  IF ~v.map \/ c = 0
    THEN [v EXCEPT !.timer = 0]
    ELSE [v EXCEPT !.restaurants = 0, !.isLoading = TRUE, !.error = "none",
                   !.run = @ + 1, !.timer = v.run + 1,
                   !.requests = @ \cup {[run |-> v.run + 1, coords |-> c]}]

\* The effect on [coords]: everything is reset, isLoading set as there are
\* two coords or none.
CoordsEffect(v, c) ==
  [v EXCEPT !.coords = c, !.restaurants = 0, !.isLoading = (c # 0),
            !.error = "none", !.reload = TRUE]

\* App hands new coords down: AddressForm publishes the empty list when a
\* submission begins and the two coordinates when it has succeeded. The
\* GoogleMap is keyed by the coords and will mount anew.
CoordsChange(c) ==
  /\ c # view.coords
  /\ c = 0 \/ view.coords = 0
  /\ view.run < MaxRuns
  /\ view' = FetchEffect(CoordsEffect(view, c), c)
  /\ UNCHANGED <<server, form>>

\* onLoad of the GoogleMap just mounted: setMap, which runs the fetch
\* effect again.
MapLoads ==
  /\ view.reload
  /\ view.run < MaxRuns
  /\ view' = FetchEffect([view EXCEPT !.map = TRUE, !.reload = FALSE], view.coords)
  /\ UNCHANGED <<server, form>>

\* The 10 s timer of the last run fires before its request has settled.
TimeoutFires ==
  /\ view.timer # 0
  /\ view' = [view EXCEPT !.isLoading = FALSE, !.error = "timeout", !.timer = 0]
  /\ UNCHANGED <<server, form>>

\* fetchNearbyPlaces of some run settles: .then or .catch of that run.
Responds(req, answer) ==
  /\ req \in view.requests
  /\ view' =
       [view EXCEPT
          !.requests = @ \ {req},
          !.timer = IF @ = req.run THEN 0 ELSE @,
          !.isLoading = FALSE,
          !.restaurants = IF answer = "OK" THEN req.coords ELSE @,
          !.error = IF answer \in {"OK", "ZERO_RESULTS"} THEN @ ELSE answer]
  /\ UNCHANGED <<server, form>>

ViewNext ==
  \/ \E c \in Coords : CoordsChange(c)
  \/ MapLoads
  \/ TimeoutFires
  \/ \E run \in 1..MaxRuns, c \in 1..MaxCoords, answer \in Answers :
       Responds([run |-> run, coords |-> c], answer)

SpecView == Init /\ [][ViewNext]_vars

\* C37: whenever MapView's restaurant list is not empty it is the answer to
\* the request made for the current coords, and the list is never shown
\* together with the error of the timeout.
C37_ListIsOfCurrentCoords ==
  view.restaurants # 0 =>
    /\ view.restaurants = view.coords
    /\ view.error # "timeout"

====
